---------------------------- MODULE Spec2Model ----------------------------
(* A model of demo/lua-server.py: the HTTP handler LuaHandler, with its   *)
(* code-execution endpoint (do_POST) and its static-file endpoint          *)
(* (do_GET), run by HTTPServer.serve_forever one request at a time.        *)
(*                                                                         *)
(* Abstractions.  A request body is a sequence of JSON lexical tokens; one *)
(* token stands for one unit of Content-Length.  A request path is a       *)
(* sequence of path tokens ("/", a name, an extension such as ".html").    *)
(* The bytes a child process writes are numbers 0..255; text is a TLA+     *)
(* string.  A write to the client socket either transfers all it is given  *)
(* or raises; once it has raised, the connection stays broken.             *)
EXTENDS Naturals, Integers, Sequences, FiniteSets, TLC

(***************************************************************************)
(* Bounds of the model and constants of the program.                       *)
(***************************************************************************)
\* Numeric Content-Length headers range over 0..MaxContentLength.
MaxContentLength == 5

\* subprocess.run(..., timeout=5)
Timeout == 5

(***************************************************************************)
(* Python values and exceptions.                                           *)
(***************************************************************************)
Unbound  == [t |-> "unbound"]
PyNone   == [t |-> "NoneType"]
PyStr(s) == [t |-> "str", s |-> s]
PyInt(s) == [t |-> "int", s |-> s]
PyList(x) == [t |-> "list", items |-> x]
PyDict(f) == [t |-> "dict", d |-> f]
PyBytes(b) == [t |-> "bytes", b |-> b]

Exc(type, msg) == [type |-> type, msg |-> msg]
NoExc == Exc("", "")

Ok(v)     == [ok |-> TRUE, val |-> v, exc |-> NoExc]
Raise(e)  == [ok |-> FALSE, val |-> Unbound, exc |-> e]

RECURSIVE Concat(_)
\* "".join(s) for a sequence of strings
Concat(s) == IF s = <<>> THEN "" ELSE Head(s) \o Concat(Tail(s))

DigitChars == <<"0", "1", "2", "3", "4", "5", "6", "7", "8", "9">>

IsDigit(c) == \E i \in 1..10 : DigitChars[i] = c

DigitVal(c) == (CHOOSE i \in 1..10 : DigitChars[i] = c) - 1

RECURSIVE Digits(_)
\* the decimal digits of a natural number, as characters
Digits(n) == IF n < 10 THEN <<DigitChars[n + 1]>>
             ELSE Append(Digits(n \div 10), DigitChars[(n % 10) + 1])

\* str(n) for a natural number
ItoA(n) == Concat(Digits(n))

(***************************************************************************)
(* int(self.headers.get('Content-Length', 0))            (line 17)         *)
(***************************************************************************)
\* A header the client may send: absent, or present with a string value,
\* the value a sequence of characters.
NoHeader     == [present |-> FALSE, value |-> <<>>]
HeaderOf(cs) == [present |-> TRUE, value |-> cs]

\* headers.get(name, default): the header's string, or the default (the int 0)
HeadersGet(h, default) == IF h.present THEN [t |-> "str", cs |-> h.value]
                          ELSE [t |-> "int", n |-> default]

RECURSIVE LStrip(_, _)
\* s.lstrip(c) on a sequence
LStrip(s, c) == IF s # <<>> /\ Head(s) = c THEN LStrip(Tail(s), c) ELSE s

RECURSIVE RStrip(_, _)
RStrip(s, c) == IF s # <<>> /\ s[Len(s)] = c
                THEN RStrip(SubSeq(s, 1, Len(s) - 1), c) ELSE s

RECURSIVE DecimalValue(_, _)
DecimalValue(ds, acc) == IF ds = <<>> THEN acc
                         ELSE DecimalValue(Tail(ds), acc * 10 + DigitVal(Head(ds)))

\* int(x) of a string: surrounding blanks are ignored, one sign is allowed,
\* and what remains is a non-empty run of decimal digits; otherwise ValueError.
IntOfStr(cs) ==
    LET s      == RStrip(LStrip(cs, " "), " ")
        signed == s # <<>> /\ Head(s) \in {"+", "-"}
        ds     == IF signed THEN Tail(s) ELSE s
        good   == ds # <<>> /\ \A i \in 1..Len(ds) : IsDigit(ds[i])
    IN  IF ~good
        THEN Raise(Exc("ValueError",
                 "invalid literal for int() with base 10: '" \o Concat(cs) \o "'"))
        ELSE IF signed /\ Head(s) = "-" THEN Ok(0 - DecimalValue(ds, 0))
        ELSE Ok(DecimalValue(ds, 0))

\* A conversion that takes what is no number for zero.
ContentLengthOf_Lenient(h) ==
    IF h.present /\ IntOfStr(h.value).ok THEN IntOfStr(h.value) ELSE Ok(0)

\* int(self.headers.get('Content-Length', 0))
ContentLengthOf(h) ==
    LET v == HeadersGet(h, 0)
    IN  IF v.t = "int" THEN Ok(v.n) ELSE IntOfStr(v.cs)

\* self.rfile.read(n) on the body the client sent and then closed: the first
\* n units, or all of them when n is negative or exceeds what was sent.
RFileRead(sent, n) ==
    IF n < 0 \/ n >= Len(sent) THEN sent ELSE SubSeq(sent, 1, n)

(***************************************************************************)
(* JSON: json.loads (line 19) and json.dumps (lines 48, 54) over tokens.   *)
(* The values are flat: scalars, arrays of scalars, objects of scalars.    *)
(***************************************************************************)
Tok(k, v) == [k |-> k, v |-> v]
LBrace   == Tok("{", "")
RBrace   == Tok("}", "")
LBracket == Tok("[", "")
RBracket == Tok("]", "")
Colon    == Tok(":", "")
Comma    == Tok(",", "")
Null     == Tok("null", "")
S(v)     == Tok("str", v)
N(v)     == Tok("num", v)
\* a byte of no JSON text
Junk     == Tok("junk", "")

IsScalarTok(tk) == tk.k \in {"str", "num", "null"}

ScalarOf(tk) == CASE tk.k = "str" -> PyStr(tk.v)
                  [] tk.k = "num" -> PyInt(tk.v)
                  [] OTHER        -> PyNone

JSONDecodeError(msg) == Exc("JSONDecodeError", msg)

\* d[key] = val on a dict held as a function
DictSet(d, key, val) ==
    [x \in (DOMAIN d) \cup {key} |-> IF x = key THEN val ELSE d[x]]

RECURSIVE ParseMembers(_, _, _)
\* the members of an object, a key expected at toks[i]
ParseMembers(toks, i, d) ==
    IF i > Len(toks) \/ toks[i].k # "str"
    THEN Raise(JSONDecodeError("Expecting property name enclosed in double quotes"))
    ELSE IF i + 1 > Len(toks) \/ toks[i + 1].k # ":"
    THEN Raise(JSONDecodeError("Expecting ':' delimiter"))
    ELSE IF i + 2 > Len(toks) \/ ~IsScalarTok(toks[i + 2])
    THEN Raise(JSONDecodeError("Expecting value"))
    ELSE LET d2 == DictSet(d, toks[i].v, ScalarOf(toks[i + 2]))
         IN  IF i + 3 > Len(toks)
             THEN Raise(JSONDecodeError("Expecting ',' delimiter"))
             ELSE IF toks[i + 3].k = "}"
             THEN IF i + 3 = Len(toks) THEN Ok(PyDict(d2))
                  ELSE Raise(JSONDecodeError("Extra data"))
             ELSE IF toks[i + 3].k = ","
             THEN ParseMembers(toks, i + 4, d2)
             ELSE Raise(JSONDecodeError("Expecting ',' delimiter"))

RECURSIVE ParseElements(_, _, _)
\* the elements of an array, a value expected at toks[i]
ParseElements(toks, i, xs) ==
    IF i > Len(toks) \/ ~IsScalarTok(toks[i])
    THEN Raise(JSONDecodeError("Expecting value"))
    ELSE LET xs2 == Append(xs, ScalarOf(toks[i]))
         IN  IF i + 1 > Len(toks)
             THEN Raise(JSONDecodeError("Expecting ',' delimiter"))
             ELSE IF toks[i + 1].k = "]"
             THEN IF i + 1 = Len(toks) THEN Ok(PyList(xs2))
                  ELSE Raise(JSONDecodeError("Extra data"))
             ELSE IF toks[i + 1].k = ","
             THEN ParseElements(toks, i + 2, xs2)
             ELSE Raise(JSONDecodeError("Expecting ',' delimiter"))

\* json.loads(body)
JsonLoads(toks) ==
    IF toks = <<>> THEN Raise(JSONDecodeError("Expecting value"))
    ELSE IF IsScalarTok(toks[1])
    THEN IF Len(toks) = 1 THEN Ok(ScalarOf(toks[1]))
         ELSE Raise(JSONDecodeError("Extra data"))
    ELSE IF toks[1].k = "{"
    THEN IF Len(toks) >= 2 /\ toks[2].k = "}"
         THEN IF Len(toks) = 2 THEN Ok(PyDict(<<>>))
              ELSE Raise(JSONDecodeError("Extra data"))
         ELSE ParseMembers(toks, 2, <<>>)
    ELSE IF toks[1].k = "["
    THEN IF Len(toks) >= 2 /\ toks[2].k = "]"
         THEN IF Len(toks) = 2 THEN Ok(PyList(<<>>))
              ELSE Raise(JSONDecodeError("Extra data"))
         ELSE ParseElements(toks, 2, <<>>)
    ELSE Raise(JSONDecodeError("Expecting value"))

\* data.get(key, default): a dict method; any other value has no get
DictGet_Subscript(data, key, default) ==
    IF data.t # "dict"
    THEN Raise(Exc("TypeError", "'" \o data.t \o "' object is not subscriptable"))
    ELSE IF key \in DOMAIN data.d THEN Ok(data.d[key])
    ELSE Raise(Exc("KeyError", "'" \o key \o "'"))

DictGet_NoTypeCheck(data, key, default) ==
    IF data.t = "dict" /\ key \in DOMAIN data.d THEN Ok(data.d[key])
    ELSE Ok(default)

DictGet(data, key, default) ==
    IF data.t # "dict"
    THEN Raise(Exc("AttributeError",
                   "'" \o data.t \o "' object has no attribute 'get'"))
    ELSE IF key \in DOMAIN data.d THEN Ok(data.d[key])
    ELSE Ok(default)

\* json.dumps({'result': output, 'status': status})
DumpsResult(output, status) ==
    <<LBrace, S("result"), Colon, S(output), Comma,
      S("status"), Colon, N(ItoA(status)), RBrace>>

\* json.dumps({'error': str(e)})
DumpsError(e) == <<LBrace, S("error"), Colon, S(e.msg), RBrace>>

(***************************************************************************)
(* subprocess.run(['lua', '-e', code], capture_output=True, text=True,     *)
(* timeout=5)                                             (lines 24-29)    *)
(***************************************************************************)
\* How the host may have lua: on the PATH, not there, or there and not
\* executable.
LuaInstalls == {"installed", "missing", "noexec"}

\* Seconds a child may need to finish.
Runtimes == {1, Timeout + 1}

ExitCodes == {0, 1}

\* What a child may write to a pipe: nothing, "hi\n", "boom\r\n", and "h"
\* followed by the byte 0xff, which starts no UTF-8 sequence.
Streams == {<<>>, <<104, 105, 10>>, <<98, 111, 111, 109, 13, 10>>, <<104, 255>>}

NoProc == [state |-> "none", argv |-> <<>>, rc |-> 0, out |-> <<>>, err |-> <<>>]

\* Popen: the argument list must hold strings, and the program must be found
\* and executable; the result is the argument vector of the started child.
Popen(arg, lua) ==
    IF arg.t # "str"
    THEN Raise(Exc("TypeError",
             "expected str, bytes or os.PathLike object, not " \o arg.t))
    ELSE IF lua = "missing"
    THEN Raise(Exc("FileNotFoundError", "[Errno 2] No such file or directory: 'lua'"))
    ELSE IF lua = "noexec"
    THEN Raise(Exc("PermissionError", "[Errno 13] Permission denied: 'lua'"))
    ELSE Ok(<<"lua", "-e", arg.s>>)

\* bytes.decode('utf-8'): the model's bytes are ASCII or invalid
Utf8Decode(bs) ==
    IF \E i \in 1..Len(bs) : bs[i] >= 128
    THEN Raise(Exc("UnicodeDecodeError", "'utf-8' codec can't decode byte 0xff"))
    ELSE Ok(bs)

RECURSIVE TranslateNewlines(_)
\* text.replace("\r\n", "\n").replace("\r", "\n")
TranslateNewlines(cs) ==
    IF cs = <<>> THEN <<>>
    ELSE IF Head(cs) = 13 /\ Len(cs) >= 2 /\ cs[2] = 10
    THEN <<10>> \o TranslateNewlines(Tail(Tail(cs)))
    ELSE IF Head(cs) = 13 THEN <<10>> \o TranslateNewlines(Tail(cs))
    ELSE <<Head(cs)>> \o TranslateNewlines(Tail(cs))

\* the character of a code point
Chr(c) == CASE c = 10  -> "\n"
            [] c = 13  -> "\r"
            [] c = 98  -> "b"
            [] c = 104 -> "h"
            [] c = 105 -> "i"
            [] c = 109 -> "m"
            [] c = 111 -> "o"
            [] OTHER   -> "?"

\* A captured stream as text (text=True): decoded, newlines translated.
CaptureText(bs) ==
    LET r == Utf8Decode(bs)
    IN  IF ~r.ok THEN r
        ELSE Ok(Concat([i \in 1..Len(TranslateNewlines(r.val)) |->
                           Chr(TranslateNewlines(r.val)[i])]))

\* When the timeout expires, run() kills the child and waits for it.
OnTimeout_Abandon(p) == p

OnTimeout(p) == [p EXCEPT !.state = "killed"]

TimeoutExpired ==
    Exc("TimeoutExpired",
        "Command '['lua', '-e', ...]' timed out after " \o ItoA(Timeout) \o " seconds")

\* output = result.stdout if result.returncode == 0 else result.stderr  (line 31)
SelectOutput_Swapped(rc, stdout, stderr) == IF rc = 0 THEN stderr ELSE stdout

SelectOutput(rc, stdout, stderr) == IF rc = 0 THEN stdout ELSE stderr

\* The except clauses of the execution step (lines 33-41): output and status.
HandleRunExc_Generic(e) == [output |-> "Error: " \o e.msg, status |-> 500]

HandleRunExc(e) ==
    IF e.type = "TimeoutExpired"
    THEN [output |-> "Error: Execution timeout", status |-> 408]
    ELSE IF e.type = "FileNotFoundError"
    THEN [output |-> "Error: Lua not installed. Try: brew install lua", status |-> 500]
    ELSE [output |-> "Error: " \o e.msg, status |-> 500]

(***************************************************************************)
(* What BaseHTTPRequestHandler puts on the wire.  The status line and the  *)
(* headers collect in _headers_buffer; end_headers writes the buffer to    *)
(* the socket and empties it; a body is written straight to the socket.    *)
(***************************************************************************)
StatusLine(c) == [k |-> "status", code |-> c, name |-> "", value |-> "", data |-> <<>>]
Header(n, v)  == [k |-> "header", code |-> 0, name |-> n, value |-> v, data |-> <<>>]
EndOfHeaders  == [k |-> "end", code |-> 0, name |-> "", value |-> "", data |-> <<>>]
BodyOf(d)     == [k |-> "body", code |-> 0, name |-> "", value |-> "", data |-> d]

\* send_response(code): the status line and the Server and Date headers
SendResponse(buf, c) ==
    buf \o <<StatusLine(c), Header("Server", "BaseHTTP"), Header("Date", "now")>>

SendHeader(buf, n, v) == Append(buf, Header(n, v))

\* end_headers(), up to the write
EndHeaders(buf) == Append(buf, EndOfHeaders)

\* The headers of the {result, status} response (lines 43-46).
ResultHeaders(buf, st) ==
    EndHeaders(SendHeader(SendHeader(SendResponse(buf, st),
        "Content-Type", "application/json"), "Access-Control-Allow-Origin", "*"))

\* The headers of the {error} response (lines 51-53).
ErrorHeaders(buf) ==
    EndHeaders(SendHeader(SendResponse(buf, 500), "Content-Type", "application/json"))

\* The headers of a not-found response (lines 56-57 and 78-79).
NotFoundHeaders(buf) == EndHeaders(SendResponse(buf, 404))

\* send_error(501): what the base class answers when the handler has no
\* method for the request's command.
B(c) == Tok("byte", c)
ErrorPage == <<B("<html>"), B("501"), B("</html>")>>

SendError501(buf) ==
    EndHeaders(SendHeader(SendHeader(SendHeader(SendResponse(buf, 501),
        "Connection", "close"), "Content-Type", "text/html;charset=utf-8"),
        "Content-Length", ItoA(Len(ErrorPage))))

(***************************************************************************)
(* Requests, paths and the file system.                                    *)
(***************************************************************************)
Methods == {"GET", "POST", "PUT", "DELETE", "HEAD"}

ApiPath == <<"/", "api", "/", "lua">>

Targets == { <<"/">>, <<>>,
             <<"/", "index", ".html">>,
             <<"/", "/", "index", ".html">>,
             <<"/", "app", ".js">>,
             <<"/", "lua", ".wasm">>,
             <<"/", "notes", ".txt">>,
             <<"/", "missing", ".file">>,
             ApiPath,
             <<"/", "api", "/", "lua", "/">> }

\* Content-Length headers a client may send.
CLHeaders == {NoHeader} \cup {HeaderOf(Digits(n)) : n \in 0..MaxContentLength}
             \cup {HeaderOf(<<"a", "b", "c">>), HeaderOf(<<>>),
                   HeaderOf(<<" ", "2", " ">>), HeaderOf(<<"-", "1">>)}

\* Bodies a client may send.
Bodies == { <<>>,
            <<LBrace, RBrace>>,
            <<LBrace, S("code"), Colon, S(""), RBrace>>,
            <<LBrace, S("code"), Colon, S("print(1)"), RBrace>>,
            <<LBrace, S("code"), Colon, N("5"), RBrace>>,
            <<LBrace, S("other"), Colon, S("x"), RBrace>>,
            <<LBracket, RBracket>>,
            <<S("code")>>,
            <<Null>>,
            <<Junk>> }

Request(m, t, h, b) == [method |-> m, target |-> t, cl |-> h, body |-> b]

\* Only a POST is sent with a body here; no other handler reads one.
Requests ==
    {Request("POST", t, h, b) : t \in Targets, h \in CLHeaders, b \in Bodies}
    \cup {Request(m, t, NoHeader, <<>>) : m \in Methods \ {"POST"}, t \in Targets}

NoRequest == Request("", <<>>, NoHeader, <<>>)

\* os.path.dirname(__file__)
Root == <<"/", "srv", "/", "demo">>

\* os.path.join(a, b) for a relative b
PathJoin(a, b) == IF a # <<>> /\ a[Len(a)] = "/" THEN a \o b ELSE a \o <<"/">> \o b

\* The names under the root a file-system state speaks of.
Files == { <<"index", ".html">>, <<"app", ".js">>, <<"lua", ".wasm">>,
           <<"notes", ".txt">> }

Absent   == [kind |-> "absent", bytes |-> <<>>, readable |-> FALSE]
Dir      == [kind |-> "dir", bytes |-> <<>>, readable |-> FALSE]
File(bs) == [kind |-> "file", bytes |-> bs, readable |-> TRUE]
\* a regular file the server's user has no permission to read
Locked(bs) == [kind |-> "file", bytes |-> bs, readable |-> FALSE]

\* The states of the file system: index.html absent, a directory, a file of
\* either content, or a file that cannot be read; every other name absent or
\* a file.
FSStates ==
    { [f \in Files |->
         IF f = <<"index", ".html">> THEN ix
         ELSE IF f \in present THEN File(<<B(f[1])>>) ELSE Absent] :
      ix \in {Absent, Dir, File(<<B("<h1>")>>), File(<<>>), Locked(<<B("<h1>")>>)},
      present \in SUBSET (Files \ {<<"index", ".html">>}) }

\* os.path.isfile(filepath)
IsFile(fsys, fp) ==
    \E f \in DOMAIN fsys : PathJoin(Root, f) = fp /\ fsys[f].kind = "file"

\* open(filepath, 'rb') succeeds; otherwise it raises PermissionError
CanOpen(fsys, fp) ==
    \E f \in DOMAIN fsys : PathJoin(Root, f) = fp /\ fsys[f].readable

\* f.read()
ReadFile(fsys, fp) ==
    fsys[CHOOSE f \in DOMAIN fsys : PathJoin(Root, f) = fp].bytes

\* if self.path == '/' or self.path == '': self.path = '/index.html'  (61-62)
RewriteRoot_None(p) == p

RewriteRoot(p) == IF p = <<"/">> \/ p = <<>> THEN <<"/", "index", ".html">> ELSE p

\* os.path.join(os.path.dirname(__file__), self.path.lstrip('/'))   (line 64)
Resolve(p) == PathJoin(Root, LStrip(p, "/"))

EndsWith(p, ext) == p # <<>> /\ p[Len(p)] = ext

\* The Content-Type of a served file, by extension (lines 69-74).
ContentTypeHeader(buf, fp) ==
    IF EndsWith(fp, ".html") THEN SendHeader(buf, "Content-Type", "text/html")
    ELSE IF EndsWith(fp, ".js")
    THEN SendHeader(buf, "Content-Type", "application/javascript")
    ELSE IF EndsWith(fp, ".wasm")
    THEN SendHeader(buf, "Content-Type", "application/wasm")
    ELSE buf

\* if self.path == '/api/lua'                                     (line 15)
IsLuaEndpoint_Prefix(p) == Len(p) >= Len(ApiPath) /\ SubSeq(p, 1, Len(ApiPath)) = ApiPath

IsLuaEndpoint(p) == p = ApiPath

\* handle_one_request: the handler's method for the command, if it has one.
\* LuaHandler defines do_POST and do_GET.
Dispatch(m) == IF m = "POST" THEN "do_POST"
               ELSE IF m = "GET" THEN "do_GET"
               ELSE "send_error"

(***************************************************************************)
(* The state: the request being handled, the handler's position and        *)
(* locals, the child process, the socket, and the file system.             *)
(***************************************************************************)
VARIABLES
    pc,              \* where the server is: "idle", a handler step, "done", "raised"
    request,         \* the request as the client sent it
    path,            \* self.path
    fs,              \* the file system under the root directory
    content_length,  \* do_POST's content_length, or Unbound
    body,            \* do_POST's body, or Unbound
    data,            \* do_POST's data, or Unbound
    code,            \* do_POST's code, or Unbound
    proc,            \* the child process of subprocess.run
    launched,        \* how many children this request has started
    runExc,          \* the exception the execution step caught, or NoExc
    output,          \* do_POST's output ("" while unbound)
    status,          \* do_POST's status (0 while unbound)
    exc,             \* the exception the outer except clause caught, or NoExc
    filepath,        \* do_GET's filepath
    hbuf,            \* _headers_buffer
    wire,            \* what has been written to the client socket
    sock             \* the client socket: "open" or "broken"

vars == <<pc, request, path, fs, content_length, body, data, code, proc, launched,
          runExc, output, status, exc, filepath, hbuf, wire, sock>>

postLocals == <<content_length, body, data, code, proc, launched, runExc, output,
                status, exc>>

BrokenPipeError == Exc("BrokenPipeError", "[Errno 32] Broken pipe")
MemoryError     == Exc("MemoryError", "")

\* How a write to the socket may end: a broken socket stays broken.
WriteOutcomes(s) == IF s = "open" THEN {"ok", "reset"} ELSE {"reset"}

\* end_headers(): self.wfile.write(b"".join(self._headers_buffer)), then the
\* buffer is emptied; when the write raises, the buffer is left as it is.
FlushHeaders(buf, o, next, onfail) ==
    IF o = "ok"
    THEN wire' = wire \o buf /\ hbuf' = <<>> /\ sock' = sock /\ pc' = next
    ELSE wire' = wire /\ hbuf' = buf /\ sock' = "broken" /\ pc' = onfail

\* self.wfile.write(payload)
WriteBody(payload, o, next, onfail) ==
    IF o = "ok"
    THEN wire' = Append(wire, BodyOf(payload)) /\ sock' = sock /\ pc' = next
    ELSE wire' = wire /\ sock' = "broken" /\ pc' = onfail

Fresh ==
    /\ request = NoRequest
    /\ path = <<>>
    /\ content_length = Unbound
    /\ body = Unbound
    /\ data = Unbound
    /\ code = Unbound
    /\ proc = NoProc
    /\ launched = 0
    /\ runExc = NoExc
    /\ output = ""
    /\ status = 0
    /\ exc = NoExc
    /\ filepath = <<>>
    /\ hbuf = <<>>
    /\ wire = <<>>
    /\ sock = "open"

\* server.serve_forever() is waiting for a request            (lines 85-89)
Init == pc = "idle" /\ fs \in FSStates /\ Fresh

\* A request arrives and handle_one_request picks the method for it.
Accept ==
    /\ pc = "idle"
    /\ \E r \in Requests :
          /\ request' = r
          /\ path' = r.target
          /\ pc' = Dispatch(r.method)
    /\ UNCHANGED <<fs, postLocals, filepath, hbuf, wire, sock>>

(***************************************************************************)
(* do_POST                                                  (lines 14-57)  *)
(***************************************************************************)
\* if self.path == '/api/lua'                                    (line 15)
DoPost ==
    /\ pc = "do_POST"
    /\ pc' = IF IsLuaEndpoint(path) THEN "read" ELSE "post_404"
    /\ UNCHANGED <<request, path, fs, postLocals, filepath, hbuf, wire, sock>>

\* content_length = int(...); body = self.rfile.read(...)     (lines 17-18)
PostRead ==
    /\ pc = "read"
    /\ LET n == ContentLengthOf(request.cl)
       IN  IF n.ok
           THEN /\ content_length' = [t |-> "int", n |-> n.val]
                /\ body' = PyBytes(RFileRead(request.body, n.val))
                /\ pc' = "parse"
                /\ exc' = exc
           ELSE /\ exc' = n.exc
                /\ pc' = "except"
                /\ UNCHANGED <<content_length, body>>
    /\ UNCHANGED <<request, path, fs, data, code, proc, launched, runExc, output,
                   status, filepath, hbuf, wire, sock>>

\* data = json.loads(body); code = data.get('code', '')       (lines 19-20)
PostParse ==
    /\ pc = "parse"
    /\ LET r == JsonLoads(body.b)
           g == DictGet(r.val, "code", PyStr(""))
       IN  IF ~r.ok
           THEN exc' = r.exc /\ pc' = "except" /\ UNCHANGED <<data, code>>
           ELSE IF ~g.ok
           THEN data' = r.val /\ exc' = g.exc /\ pc' = "except" /\ code' = code
           ELSE data' = r.val /\ code' = g.val /\ pc' = "run" /\ exc' = exc
    /\ UNCHANGED <<request, path, fs, content_length, body, proc, launched, runExc,
                   output, status, filepath, hbuf, wire, sock>>

\* subprocess.run starts the child, or raises                 (lines 24-29)
RunLaunch ==
    /\ pc = "run"
    /\ \E lua \in LuaInstalls :
          LET r == Popen(code, lua)
          IN  IF r.ok
              THEN /\ proc' = [NoProc EXCEPT !.state = "running", !.argv = r.val]
                   /\ launched' = launched + 1
                   /\ pc' = "wait"
                   /\ UNCHANGED <<runExc, output, status>>
              ELSE /\ runExc' = r.exc
                   /\ output' = HandleRunExc(r.exc).output
                   /\ status' = HandleRunExc(r.exc).status
                   /\ pc' = "respond"
                   /\ UNCHANGED <<proc, launched>>
    /\ UNCHANGED <<request, path, fs, content_length, body, data, code, exc,
                   filepath, hbuf, wire, sock>>

\* subprocess.run waits for the child: it exits in time and its output is
\* captured as text, or the timeout expires               (lines 24-41)
RunWait ==
    /\ pc = "wait"
    /\ \/ \E need \in Runtimes :
             /\ need > Timeout
             /\ proc' = OnTimeout(proc)
             /\ runExc' = TimeoutExpired
             /\ output' = HandleRunExc(TimeoutExpired).output
             /\ status' = HandleRunExc(TimeoutExpired).status
       \/ \E need \in Runtimes, rc \in ExitCodes, out \in Streams, err \in Streams :
             /\ need <= Timeout
             /\ proc' = [proc EXCEPT !.state = "exited", !.rc = rc,
                                     !.out = out, !.err = err]
             /\ LET so == CaptureText(out)
                    se == CaptureText(err)
                    e  == IF ~so.ok THEN so.exc ELSE se.exc
                IN  IF so.ok /\ se.ok
                    THEN /\ output' = SelectOutput(rc, so.val, se.val)
                         /\ status' = 200
                         /\ runExc' = runExc
                    ELSE /\ runExc' = e
                         /\ output' = HandleRunExc(e).output
                         /\ status' = HandleRunExc(e).status
    /\ pc' = "respond"
    /\ UNCHANGED <<request, path, fs, content_length, body, data, code, launched,
                   exc, filepath, hbuf, wire, sock>>

\* send_response(status), the two headers, end_headers()      (lines 43-46)
PostSendHeaders ==
    /\ pc = "respond"
    /\ \E o \in WriteOutcomes(sock) :
          /\ FlushHeaders(ResultHeaders(hbuf, status), o, "body", "except")
          /\ exc' = IF o = "ok" THEN exc ELSE BrokenPipeError
    /\ UNCHANGED <<request, path, fs, content_length, body, data, code, proc,
                   launched, runExc, output, status, filepath>>

\* response = json.dumps(...); self.wfile.write(response.encode())
\* Building the text can fail for want of memory; the write can fail. (48-49)
PostSendBody ==
    /\ pc = "body"
    /\ \/ \E o \in WriteOutcomes(sock) :
             /\ WriteBody(DumpsResult(output, status), o, "done", "except")
             /\ exc' = IF o = "ok" THEN exc ELSE BrokenPipeError
       \/ /\ exc' = MemoryError
          /\ pc' = "except"
          /\ UNCHANGED <<wire, sock>>
    /\ UNCHANGED <<request, path, fs, content_length, body, data, code, proc,
                   launched, runExc, output, status, filepath, hbuf>>

\* except Exception as e: send_response(500), Content-Type, end_headers()
\* A fault here leaves do_POST.                               (lines 50-53)
PostExcept ==
    /\ pc = "except"
    /\ \E o \in WriteOutcomes(sock) :
          FlushHeaders(ErrorHeaders(hbuf), o, "except_body", "raised")
    /\ UNCHANGED <<request, path, fs, postLocals, filepath>>

\* self.wfile.write(json.dumps({'error': str(e)}).encode())      (line 54)
PostExceptBody ==
    /\ pc = "except_body"
    /\ \E o \in WriteOutcomes(sock) : WriteBody(DumpsError(exc), o, "done", "raised")
    /\ UNCHANGED <<request, path, fs, postLocals, filepath, hbuf>>

\* else: send_response(404); end_headers()                    (lines 55-57)
PostNotFound ==
    /\ pc = "post_404"
    /\ \E o \in WriteOutcomes(sock) :
          FlushHeaders(NotFoundHeaders(hbuf), o, "done", "raised")
    /\ UNCHANGED <<request, path, fs, postLocals, filepath>>

(***************************************************************************)
(* do_GET                                                   (lines 59-79)  *)
(***************************************************************************)
\* the path is rewritten and resolved, and os.path.isfile asked (lines 61-66)
GetResolve ==
    /\ pc = "do_GET"
    /\ path' = RewriteRoot(path)
    /\ filepath' = Resolve(RewriteRoot(path))
    /\ pc' = IF IsFile(fs, Resolve(RewriteRoot(path))) THEN "get_send" ELSE "get_404"
    /\ UNCHANGED <<request, fs, postLocals, hbuf, wire, sock>>

\* with open(filepath, 'rb') as f: send_response(200), the Content-Type if
\* any, end_headers().  When the file cannot be opened, open raises and
\* do_GET, which catches nothing, is left with nothing written. (lines 67-75)
GetSendHeaders ==
    /\ pc = "get_send"
    /\ IF CanOpen(fs, filepath)
       THEN \E o \in WriteOutcomes(sock) :
               FlushHeaders(EndHeaders(ContentTypeHeader(SendResponse(hbuf, 200),
                                                         filepath)),
                            o, "get_body", "raised")
       ELSE pc' = "raised" /\ UNCHANGED <<hbuf, wire, sock>>
    /\ UNCHANGED <<request, path, fs, postLocals, filepath>>

\* self.wfile.write(f.read())                                    (line 76)
GetSendBody ==
    /\ pc = "get_body"
    /\ \E o \in WriteOutcomes(sock) :
          WriteBody(ReadFile(fs, filepath), o, "done", "raised")
    /\ UNCHANGED <<request, path, fs, postLocals, filepath, hbuf>>

\* else: send_response(404); end_headers()                    (lines 77-79)
GetNotFound ==
    /\ pc = "get_404"
    /\ \E o \in WriteOutcomes(sock) :
          FlushHeaders(NotFoundHeaders(hbuf), o, "done", "raised")
    /\ UNCHANGED <<request, path, fs, postLocals, filepath>>

(***************************************************************************)
(* A command LuaHandler has no method for: the base class's send_error.    *)
(***************************************************************************)
UnsupportedMethod ==
    /\ pc = "send_error"
    /\ \E o \in WriteOutcomes(sock) :
          FlushHeaders(SendError501(hbuf), o,
                       IF request.method = "HEAD" THEN "done" ELSE "error_page",
                       "raised")
    /\ UNCHANGED <<request, path, fs, postLocals, filepath>>

UnsupportedMethodBody ==
    /\ pc = "error_page"
    /\ \E o \in WriteOutcomes(sock) : WriteBody(ErrorPage, o, "done", "raised")
    /\ UNCHANGED <<request, path, fs, postLocals, filepath, hbuf>>

\* The request is over, with a response or with an exception the server
\* reports and survives; serve_forever takes the next connection.
Return ==
    /\ pc \in {"done", "raised"}
    /\ pc' = "idle"
    /\ request' = NoRequest
    /\ path' = <<>>
    /\ content_length' = Unbound
    /\ body' = Unbound
    /\ data' = Unbound
    /\ code' = Unbound
    /\ proc' = NoProc
    /\ launched' = 0
    /\ runExc' = NoExc
    /\ output' = ""
    /\ status' = 0
    /\ exc' = NoExc
    /\ filepath' = <<>>
    /\ hbuf' = <<>>
    /\ wire' = <<>>
    /\ sock' = "open"
    /\ UNCHANGED fs

Next ==
    \/ Accept
    \/ DoPost
    \/ PostRead
    \/ PostParse
    \/ RunLaunch
    \/ RunWait
    \/ PostSendHeaders
    \/ PostSendBody
    \/ PostExcept
    \/ PostExceptBody
    \/ PostNotFound
    \/ GetResolve
    \/ GetSendHeaders
    \/ GetSendBody
    \/ GetNotFound
    \/ UnsupportedMethod
    \/ UnsupportedMethodBody
    \/ Return

Spec == Init /\ [][Next]_vars

(***************************************************************************)
(* What a client observes of a response.                                   *)
(***************************************************************************)
IsApiPost == request.method = "POST" /\ request.target = ApiPath

Count(w, kind) == Cardinality({i \in DOMAIN w : w[i].k = kind})

\* One status line first, one end of headers, at most one body.
SingleResponse(w) ==
    /\ w # <<>>
    /\ w[1].k = "status"
    /\ Count(w, "status") = 1
    /\ Count(w, "end") = 1
    /\ Count(w, "body") <= 1

\* The status of the response: that of the first status line.
HttpStatus(w) == IF w # <<>> /\ w[1].k = "status" THEN w[1].code ELSE 0

\* The headers written before the end of headers at position i, back to the
\* end of headers before it.
HeaderBlock(w, i) ==
    { <<w[j].name, w[j].value>> :
        j \in { j \in 1..i : /\ w[j].k = "header"
                             /\ \A m \in j..(i - 1) : w[m].k # "end" } }

HeadersOf(w) == { <<w[j].name, w[j].value>> : j \in { j \in DOMAIN w : w[j].k = "header" } }

RECURSIVE Payload(_)
\* The body bytes of a response, in the order written.
Payload(w) == IF w = <<>> THEN <<>>
              ELSE IF Head(w).k = "body" THEN Head(w).data \o Payload(Tail(w))
              ELSE Payload(Tail(w))

\* The body as the client's JSON parser reads it.
JsonBody(w) == JsonLoads(Payload(w))

\* The body is the object {"result": out, "status": st}.
IsResultBody(w, out, st) ==
    /\ JsonBody(w).ok
    /\ JsonBody(w).val.t = "dict"
    /\ DOMAIN JsonBody(w).val.d = {"result", "status"}
    /\ JsonBody(w).val.d["result"] = PyStr(out)
    /\ JsonBody(w).val.d["status"] = PyInt(ItoA(st))

\* The body is the object {"error": msg}.
IsErrorBody(w, msg) ==
    /\ JsonBody(w).ok
    /\ JsonBody(w).val.t = "dict"
    /\ DOMAIN JsonBody(w).val.d = {"error"}
    /\ JsonBody(w).val.d["error"] = PyStr(msg)

\* Some body written so far is an object with this key.
SomeBodyHasKey(w, key) ==
    \E i \in DOMAIN w :
        /\ w[i].k = "body"
        /\ JsonLoads(w[i].data).ok
        /\ JsonLoads(w[i].data).val.t = "dict"
        /\ key \in DOMAIN JsonLoads(w[i].data).val.d

\* The handler returned and no step of writing the response raised.
Answered == pc = "done" /\ exc = NoExc

Decodable(bs) == \A i \in 1..Len(bs) : bs[i] < 128

TextOrEmpty(bs) == IF CaptureText(bs).ok THEN CaptureText(bs).val ELSE ""

Hi   == <<104, 105, 10>>
Boom == <<98, 111, 111, 109, 13, 10>>

(***************************************************************************)
(* C1                                                                      *)
(***************************************************************************)
\* C1 as stated: whenever the body parsed to an object and the child exited
\* within the timeout, the answer is HTTP 200 with the body
\* {result, status: 200}, result being the captured stdout on exit code 0
\* and the captured stderr otherwise.
C1_AsStated ==
    (IsApiPost /\ Answered /\ proc.state = "exited")
    => /\ HttpStatus(wire) = 200
       /\ IsResultBody(wire,
             IF proc.rc = 0 THEN TextOrEmpty(proc.out) ELSE TextOrEmpty(proc.err), 200)

\* C1, amended: whenever the body parsed to an object, the child exited
\* within the timeout and both captured streams decode as text, the handler
\* sets status 200 and output to the captured stdout on exit code 0 and to
\* the captured stderr otherwise; the first status line it writes is 200, and
\* when the response is written without a fault it is a single response with
\* the body {result: output, status: 200}.
C1_ExitMapsTo200 ==
    (IsApiPost /\ proc.state = "exited" /\ Decodable(proc.out) /\ Decodable(proc.err))
    => LET sel == IF proc.rc = 0 THEN CaptureText(proc.out).val
                  ELSE CaptureText(proc.err).val
       IN  /\ status = 200
           /\ output = sel
           /\ runExc = NoExc
           /\ wire # <<>> => wire[1] = StatusLine(200)
           /\ Answered => SingleResponse(wire) /\ IsResultBody(wire, sel, 200)

C1_Witness ==
    /\ IsApiPost /\ Answered
    /\ proc.state = "exited" /\ proc.rc = 1 /\ proc.out = Hi /\ proc.err = Boom
    /\ HttpStatus(wire) = 200
    /\ IsResultBody(wire, "boom\n", 200)

(***************************************************************************)
(* C2                                                                      *)
(***************************************************************************)
\* C2: a fault of the execution step sets status and output by its kind:
\* timeout 408 "Error: Execution timeout"; lua not found 500 with the install
\* hint; any other fault 500 with "Error: " and its message.  The first
\* status line written is that status; a response written without a fault is
\* a single response with the body {result: output, status: status}; and no
\* body with an error key is written unless writing the response raised.
C2_FaultMapping ==
    (IsApiPost /\ runExc # NoExc)
    => LET st  == IF runExc.type = "TimeoutExpired" THEN 408 ELSE 500
           out == IF runExc.type = "TimeoutExpired" THEN "Error: Execution timeout"
                  ELSE IF runExc.type = "FileNotFoundError"
                  THEN "Error: Lua not installed. Try: brew install lua"
                  ELSE "Error: " \o runExc.msg
       IN  /\ status = st
           /\ output = out
           /\ wire # <<>> => wire[1] = StatusLine(st)
           /\ Answered => SingleResponse(wire) /\ IsResultBody(wire, out, st)
           /\ exc = NoExc => ~SomeBodyHasKey(wire, "error")

C2_Witness ==
    /\ IsApiPost /\ Answered
    /\ runExc.type = "TimeoutExpired"
    /\ HttpStatus(wire) = 408
    /\ IsResultBody(wire, "Error: Execution timeout", 408)

(***************************************************************************)
(* C3                                                                      *)
(***************************************************************************)
\* C3: when the timeout has fired the child has been killed; no 408 status
\* line is on the wire while the child runs; and the child runs only while
\* the handler waits for it, so no way out of the handler leaves it running.
C3_ChildKilledOnTimeout ==
    /\ runExc.type = "TimeoutExpired" => proc.state = "killed"
    /\ (\E i \in DOMAIN wire : wire[i] = StatusLine(408)) => proc.state # "running"
    /\ proc.state = "running" => pc = "wait"

C3_Witness ==
    /\ IsApiPost
    /\ \E i \in DOMAIN wire : wire[i] = StatusLine(408)
    /\ proc.state = "killed"
    /\ launched = 1

(***************************************************************************)
(* C4                                                                      *)
(***************************************************************************)
\* C4: every header block written for a POST /api/lua request carries
\* Content-Type: application/json and Access-Control-Allow-Origin: *.
C4_AlwaysBothHeaders ==
    IsApiPost
    => \A i \in DOMAIN wire :
          wire[i].k = "end"
          => /\ <<"Content-Type", "application/json">> \in HeaderBlock(wire, i)
             /\ <<"Access-Control-Allow-Origin", "*">> \in HeaderBlock(wire, i)

(***************************************************************************)
(* C5                                                                      *)
(***************************************************************************)
NonNumericCL == {HeaderOf(<<"a", "b", "c">>), HeaderOf(<<>>)}

ZeroCL == HeaderOf(<<"0">>)

\* C5 as stated: with the Content-Length header missing or non-numeric the
\* handler reads an empty body and answers as it does for Content-Length: 0,
\* which is HTTP 500 with the body {error: "Expecting value"}.
C5_AsStated ==
    (IsApiPost /\ pc = "done" /\ request.cl \in {NoHeader, ZeroCL} \cup NonNumericCL)
    => /\ body = PyBytes(<<>>)
       /\ HttpStatus(wire) = 500
       /\ IsErrorBody(wire, "Expecting value")

\* C5, amended: a missing Content-Length is read as zero, and the handler
\* then reads an empty body and answers exactly as for Content-Length: 0
\* (HTTP 500, {error: "Expecting value"}).  A non-numeric Content-Length
\* makes the conversion raise: nothing is read, and the answer is HTTP 500
\* with a body of the same {error} shape whose message is that of the
\* conversion, not that of the JSON parser.
C5_ContentLength ==
    (IsApiPost /\ pc \notin {"do_POST", "read"})
    => /\ request.cl \in {NoHeader, ZeroCL}
          => /\ content_length = [t |-> "int", n |-> 0]
             /\ body = PyBytes(<<>>)
             /\ pc = "done" => /\ SingleResponse(wire)
                               /\ HttpStatus(wire) = 500
                               /\ IsErrorBody(wire, "Expecting value")
       /\ request.cl \in NonNumericCL
          => /\ content_length = Unbound
             /\ body = Unbound
             /\ launched = 0
             /\ pc = "done"
                => /\ SingleResponse(wire)
                   /\ HttpStatus(wire) = 500
                   /\ IsErrorBody(wire,
                        "invalid literal for int() with base 10: '"
                           \o Concat(request.cl.value) \o "'")

C5_Witness ==
    /\ IsApiPost /\ pc = "done"
    /\ request.cl = HeaderOf(<<"a", "b", "c">>)
    /\ request.body = <<LBrace, RBrace>>
    /\ body = Unbound
    /\ IsErrorBody(wire, "invalid literal for int() with base 10: 'abc'")

C7_MalformedRequest ==
    (IsApiPost /\ pc \notin {"do_POST", "read", "parse"} /\ data.t # "dict")
    => /\ launched = 0
       /\ proc.state = "none"
       /\ exc # NoExc
       /\ status = 0
       /\ ~SomeBodyHasKey(wire, "result")
       /\ \A i \in DOMAIN wire : wire[i].k = "status" => wire[i].code = 500
       /\ pc = "done" => /\ SingleResponse(wire)
                         /\ HttpStatus(wire) = 500
                         /\ IsErrorBody(wire, exc.msg)

C7_Witness ==
    /\ IsApiPost /\ pc = "done"
    /\ body = PyBytes(<<LBracket, RBracket>>)
    /\ data.t = "list"
    /\ exc.type = "AttributeError"
    /\ HttpStatus(wire) = 500
    /\ IsErrorBody(wire, "'list' object has no attribute 'get'")

(***************************************************************************)
(* C8                                                                      *)
(***************************************************************************)
\* The status and the output the execution step's outcome stands for.
OutcomeStatus == IF runExc = NoExc THEN 200
                 ELSE IF runExc.type = "TimeoutExpired" THEN 408 ELSE 500

OutcomeOutput ==
    IF runExc = NoExc
    THEN (IF proc.rc = 0 THEN TextOrEmpty(proc.out) ELSE TextOrEmpty(proc.err))
    ELSE IF runExc.type = "TimeoutExpired" THEN "Error: Execution timeout"
    ELSE IF runExc.type = "FileNotFoundError"
    THEN "Error: Lua not installed. Try: brew install lua"
    ELSE "Error: " \o runExc.msg

\* C8: an object without a code field and an object whose code field is ""
\* are handled alike: in both cases code is the empty string, no KeyError is
\* raised, a started interpreter has the arguments lua -e "", and a response
\* written without a fault is fixed by the outcome of the execution step
\* alone: the same status, headers and body for the same outcome.
C8_AbsentCodeIsEmpty ==
    (/\ IsApiPost
     /\ data.t = "dict"
     /\ ("code" \notin DOMAIN data.d \/ data.d["code"] = PyStr("")))
    => /\ code = PyStr("")
       /\ exc.type # "KeyError"
       /\ proc.state # "none" => proc.argv = <<"lua", "-e", "">>
       /\ (pc \in {"respond", "body"} \/ Answered)
          => status = OutcomeStatus /\ output = OutcomeOutput
       /\ Answered
          => /\ SingleResponse(wire)
             /\ HttpStatus(wire) = OutcomeStatus
             /\ IsResultBody(wire, OutcomeOutput, OutcomeStatus)
             /\ HeadersOf(wire) = { <<"Server", "BaseHTTP">>, <<"Date", "now">>,
                                    <<"Content-Type", "application/json">>,
                                    <<"Access-Control-Allow-Origin", "*">> }

C8_Witness ==
    /\ IsApiPost /\ Answered
    /\ body = PyBytes(<<LBrace, RBrace>>)
    /\ "code" \notin DOMAIN data.d
    /\ proc.state = "exited" /\ proc.argv = <<"lua", "-e", "">>
    /\ HttpStatus(wire) = 200

(***************************************************************************)
(* C9                                                                      *)
(***************************************************************************)
IndexHtml == <<"index", ".html">>

RootTargets == {<<"/">>, <<>>, <<"/", "index", ".html">>}

\* The names under the root that are regular files, as full paths.
RegularFiles == { Root \o <<"/">> \o f : f \in { g \in Files : fs[g].kind = "file" } }

\* The handling of the request is over and the connection is still good.
Handled == pc \in {"done", "raised"} /\ sock = "open"

C10_ExactlyOneResponse ==
    (IsApiPost /\ pc \in {"done", "raised"})
    => /\ Count(wire, "status") <= 1
       /\ Count(wire, "end") <= 1
       /\ Count(wire, "body") <= 1
       /\ launched <= 1
       /\ sock = "open" => Count(wire, "status") = 1 /\ Count(wire, "end") = 1

=============================================================================
